---------------------------- MODULE Spec2Model ----------------------------
(***************************************************************************)
(* The two time-series scripts of "lab 17 assessment":                     *)
(*   task3.py  IoT sensor preparation  (per-sensor forward fill, rolling   *)
(*             mean drift removal, per-sensor z-score)                     *)
(*   task2.py  financial preprocessing (ffill/bfill/median imputation,     *)
(*             lag returns, IQR outlier flag)                              *)
(* Each script is a straight-line batch program: the state is the input    *)
(* file, the in-memory table df, the program position and the output file. *)
(*                                                                         *)
(* Numbers are exact: a float is NaN, +/-inf, a rational n/d in lowest     *)
(* terms, or (standard deviations and z-scores only) a signed square root  *)
(* of a rational.  Floating-point rounding is not modelled.                *)
(***************************************************************************)
EXTENDS Integers, Sequences, FiniteSets, TLC

VARIABLES script, pc, file, df, output

vars == <<script, pc, file, df, output>>

---------------------------------------------------------------------------
(* Floats *)

Abs(x) == IF x < 0 THEN -x ELSE x

RECURSIVE GCD(_, _)
GCD(a, b) == IF b = 0 THEN a ELSE GCD(b, a % b)

NaN == [k |-> "nan", n |-> 0, d |-> 1]

\* +inf (s = 1) or -inf (s = -1)
Inf(s) == [k |-> "inf", n |-> s, d |-> 1]

\* the rational n/d, d # 0, in lowest terms with a positive denominator
Num(n, d) ==
    LET g == GCD(Abs(n), Abs(d))
        s == IF d < 0 THEN -1 ELSE 1
    IN  [k |-> "num", n |-> (s * n) \div g, d |-> (s * d) \div g]

Int2F(i) == Num(i, 1)

Zero == Int2F(0)

\* sign(n) * sqrt(|n|/d): what a square root or a quotient by one evaluates to
Root(n, d) ==
    IF n = 0 THEN Zero
    ELSE LET g == GCD(Abs(n), Abs(d))
             s == IF d < 0 THEN -1 ELSE 1
         IN  [k |-> "root", n |-> (s * n) \div g, d |-> (s * d) \div g]

\* a non-numeric cell of the CSV file, as read_csv leaves it in an object column
Text == [k |-> "text", n |-> 0, d |-> 1]

isnan(x) == x.k = "nan"

IsFinite(x) == x.k \in {"num", "root"}

Sign(x) == IF x.n > 0 THEN 1 ELSE IF x.n < 0 THEN -1 ELSE 0

FNeg(x) ==
    CASE x.k = "num" -> Num(-x.n, x.d)
      [] x.k = "inf" -> Inf(-x.n)
      [] OTHER -> NaN

FAdd(x, y) ==
    CASE x.k = "num" /\ y.k = "num" ->
            LET g == GCD(x.d, y.d)
            IN  Num(x.n * (y.d \div g) + y.n * (x.d \div g), (x.d \div g) * y.d)
      [] x.k = "inf" /\ y.k = "num" -> x
      [] x.k = "num" /\ y.k = "inf" -> y
      [] x.k = "inf" /\ y.k = "inf" -> IF x.n = y.n THEN x ELSE NaN
      [] OTHER -> NaN

FSub(x, y) == FAdd(x, FNeg(y))

FMul(x, y) ==
    CASE x.k = "num" /\ y.k = "num" ->
            LET g == GCD(Abs(x.n), y.d)
                h == GCD(Abs(y.n), x.d)
            IN  Num((x.n \div g) * (y.n \div h), (x.d \div h) * (y.d \div g))
      [] x.k \in {"num", "inf"} /\ y.k \in {"num", "inf"} ->
            IF Sign(x) * Sign(y) = 0 THEN NaN ELSE Inf(Sign(x) * Sign(y))
      [] OTHER -> NaN

\* IEEE division: x/0 is +/-inf, 0/0 is NaN
FDiv(x, y) ==
    CASE x.k = "num" /\ y.k = "num" ->
            IF y.n # 0 THEN FMul(x, Num(y.d, y.n))
            ELSE IF x.n = 0 THEN NaN ELSE Inf(Sign(x))
      [] x.k = "inf" /\ y.k = "num" -> Inf(x.n * (IF y.n < 0 THEN -1 ELSE 1))
      [] x.k = "num" /\ y.k = "inf" -> Zero
      [] OTHER -> NaN

\* comparisons are false as soon as one side is NaN
FLt(x, y) ==
    CASE x.k = "num" /\ y.k = "num" -> x.n * y.d < y.n * x.d
      [] x.k = "inf" /\ y.k = "num" -> x.n < 0
      [] x.k = "num" /\ y.k = "inf" -> y.n > 0
      [] x.k = "inf" /\ y.k = "inf" -> x.n < y.n
      [] OTHER -> FALSE

FGt(x, y) == FLt(y, x)

\* the square root of a rational x >= 0
Sqrt(x) == IF x.k = "num" THEN Root(x.n, x.d) ELSE NaN

\* x / r for a rational x and a square root r # 0:
\*   x/sqrt(v) = sign(x) * sqrt(x^2/v)
FDivRoot(x, r) ==
    IF x.k = "num" /\ r.k = "root"
    THEN LET q == FMul(FMul(x, x), Num(r.d, Abs(r.n)))
         IN  Root(Sign(x) * Sign(r) * q.n, q.d)
    ELSE NaN

---------------------------------------------------------------------------
(* Series: sequences of floats *)

\* the sequence f, evaluated once (a function [i \in 1..n |-> e] is otherwise
\* re-evaluated by TLC at every application)
AsSeq(f) == f \o <<>>

RECURSIVE SumSeq(_)
SumSeq(s) == IF s = <<>> THEN Zero ELSE FAdd(Head(s), SumSeq(Tail(s)))

\* the entries that are not NaN, in order (pandas reductions skip NaN)
Present(s) == SelectSeq(s, LAMBDA x : ~isnan(x))

MeanOfPresent(p) == IF p = <<>> THEN NaN ELSE FDiv(SumSeq(p), Int2F(Len(p)))

\* Series.mean(): NaN for no observation
Mean(s) == MeanOfPresent(Present(s))

MedianOfSorted(p) ==
    IF Len(p) = 0 THEN NaN
    ELSE IF Len(p) % 2 = 1 THEN p[(Len(p) + 1) \div 2]
    ELSE FDiv(FAdd(p[Len(p) \div 2], p[Len(p) \div 2 + 1]), Int2F(2))

\* Series.median(): middle of the sorted observations, the mean of the two
\* middle ones for an even count, NaN for no observation
Median(s) == MedianOfSorted(SortSeq(Present(s), FLt))

SumSqDev(p, m) ==
    SumSeq(AsSeq([i \in 1..Len(p) |-> FMul(FSub(p[i], m), FSub(p[i], m))]))

StdOfPresent(p, ddof) ==
    IF Len(p) - ddof <= 0 THEN NaN
    ELSE Sqrt(FDiv(SumSqDev(p, MeanOfPresent(p)), Int2F(Len(p) - ddof)))

\* Series.std(ddof): sqrt(sum((x - mean)^2) / (N - ddof)) over the observations
Std(s, ddof) == StdOfPresent(Present(s), ddof)

\* pd.to_numeric(errors='coerce'): a cell that is no number becomes NaN
to_numeric(cell) == IF cell.k = "text" THEN NaN ELSE cell

---------------------------------------------------------------------------
(* Tables: sequences of rows, a row a record of its columns *)

\* pd.read_csv: one row per line; the default RangeIndex is the line's position,
\* kept in the field "line" to trace a row back to the file
read_csv(f) == AsSeq([i \in 1..Len(f.rows) |-> f.rows[i] @@ [line |-> i]])

\* the column col of table t as a series
Column(t, col) == AsSeq([i \in 1..Len(t) |-> t[i][col]])

\* df[col] = values (positional: values has one entry per row)
SetColumn(t, col, values) ==
    AsSeq([i \in 1..Len(t) |-> (col :> values[i]) @@ t[i]])

\* df[col] = pd.to_numeric(df[col], errors='coerce')
CoerceColumn(t, col) ==
    SetColumn(t, col, AsSeq([i \in 1..Len(t) |-> to_numeric(t[i][col])]))

\* the orders quicksort may leave the rows of t in: the permutations of the row
\* positions along which the key is ascending
SortedOrders(t, key) ==
    { q \in Permutations(1..Len(t)) :
        \A i, j \in 1..Len(t) : i < j => t[q[i]][key].t <= t[q[j]][key].t }

\* df.sort_values(key).reset_index(drop=True).  kind defaults to 'quicksort',
\* which is not stable: every arrangement of the rows that is ascending in the
\* key is a possible result.
sort_values(t, key) ==
    { AsSeq([i \in 1..Len(t) |-> t[q[i]]]) : q \in SortedOrders(t, key) }

\* a labelled series: a sequence of (label, value)
Labelled(idx, values) ==
    AsSeq([j \in 1..Len(idx) |-> [i |-> idx[j], v |-> values[j]]])

RECURSIVE concat(_)
concat(list) == IF list = <<>> THEN <<>> ELSE Head(list) \o concat(Tail(list))

\* Series.sort_index() of a series with distinct labels
sort_index(ser) == SortSeq(ser, LAMBDA a, b : a.i < b.i)

\* the value a labelled series holds for label i, NaN when it has none
Lookup(ser, i) ==
    IF \E j \in 1..Len(ser) : ser[j].i = i
    THEN ser[CHOOSE j \in 1..Len(ser) : ser[j].i = i].v
    ELSE NaN

\* df[col] = ser for a labelled series: aligned on the label
AssignAligned(t, col, ser) ==
    SetColumn(t, col, AsSeq([i \in 1..Len(t) |-> Lookup(ser, i)]))

\* df.loc[idx, col] = values
LocAssign(t, idx, col, values) ==
    AsSeq([i \in 1..Len(t) |->
        IF \E j \in 1..Len(idx) : idx[j] = i
        THEN [t[i] EXCEPT ![col] = values[CHOOSE j \in 1..Len(idx) : idx[j] = i]]
        ELSE t[i]])

\* the values of column col on the rows idx
Take(t, col, idx) == AsSeq([j \in 1..Len(idx) |-> t[idx[j]][col]])

\* the output file: not written by this run, or the rows one to_csv call wrote
NoOutput == [written |-> FALSE, rows |-> <<>>]

to_csv(table) == [written |-> TRUE, rows |-> table]

---------------------------------------------------------------------------
(* Input files *)

\* task3.py line 60: the rolling window, in readings
ROLL_WINDOW == 6

\* most lines of an input file whose timestamps are arbitrary (unsorted, tied);
\* a file written in time order holds up to one line more
MaxRows == 2

\* a parsed timestamp cell, and a cell pd.to_datetime cannot parse
Stamp(t) == [ok |-> TRUE, t |-> t]
BadStamp == [ok |-> FALSE, t |-> 0]
Stamps == {Stamp(1), Stamp(2)}

\* sensor ids in groupby's (sorted) key order; an empty sensor_id cell is NaN
SensorOrder == <<"A", "B">>
NoSensor == "nan"
SensorCells == {SensorOrder[i] : i \in 1..Len(SensorOrder)} \cup {NoSensor}

\* (temperature, humidity) cells of one line of iot_sensor.csv: both missing
\* (an empty and a non-numeric cell), both present, humidity missing
Readings == { <<NaN, Text>>, <<Int2F(1), Int2F(2)>>, <<Int2F(3), NaN>> }

Sample(t, s, r) ==
    [timestamp |-> t, sensor_id |-> s, temperature |-> r[1], humidity |-> r[2]]

Samples == { Sample(t, s, r) : t \in Stamps, s \in SensorCells, r \in Readings }

\* the files of up to n lines drawn from S
Tables(S, n) == UNION { [1..m -> S] : m \in 0..n }

\* the files of n lines written in time order, one line per instant
Logs(n) ==
    { [i \in 1..n |-> Sample(Stamp(i), s[i], r[i])] :
        s \in [1..n -> SensorCells], r \in [1..n -> Readings] }

\* the files of one sensor, written in time order, one line longer than the
\* rolling window
LongLogs ==
    { [i \in 1..(ROLL_WINDOW + 1) |-> Sample(Stamp(i), SensorOrder[1], r[i])] :
        r \in [1..(ROLL_WINDOW + 1) -> { c \in Readings : c[1].k = "num" }] }

COLUMNS3 == {"timestamp", "sensor_id", "temperature", "humidity"}

NoFile == [exists |-> FALSE, columns |-> {}, rows |-> <<>>]

CsvFile(cols, rows) == [exists |-> TRUE, columns |-> cols, rows |-> rows]

\* iot_sensor.csv: absent; well-formed; one line and a column missing from the
\* header; one line whose timestamp does not parse
Files3 ==
    {NoFile}
    \cup { CsvFile(COLUMNS3, rows) :
             rows \in Tables(Samples, MaxRows) \cup Logs(MaxRows + 1) \cup LongLogs }
    \cup { CsvFile(COLUMNS3 \ {c}, <<r>>) : c \in COLUMNS3, r \in Samples }
    \cup { CsvFile(COLUMNS3, <<[r EXCEPT !.timestamp = BadStamp]>>) : r \in Samples }

---------------------------------------------------------------------------
(* task3.py *)

\* the keys df.groupby('sensor_id') iterates over, in its order: the distinct
\* ids sorted, rows with a NaN id dropped (dropna=True)
GroupKeys(t) ==
    SelectSeq(SensorOrder, LAMBDA s : \E i \in 1..Len(t) : t[i].sensor_id = s)

\* g.index for the group of sensor s: the row labels, ascending
GroupIndex(t, s) ==
    SelectSeq(AsSeq([i \in 1..Len(t) |-> i]), LAMBDA i : t[i].sensor_id = s)

\* the rows at or before row i that belong to row i's sensor and hold a value
PriorObserved(t, col, i) ==
    { j \in 1..i : t[j].sensor_id = t[i].sensor_id /\ ~isnan(t[j][col]) }

\* df.groupby('sensor_id')[col].ffill(): the last observation at or before the
\* row within the row's group; NaN when there is none, and on every row whose
\* sensor_id is NaN (the NaN group is dropped)
GroupFfill(t, col) ==
    AsSeq([i \in 1..Len(t) |->
        IF t[i].sensor_id = NoSensor \/ PriorObserved(t, col, i) = {} THEN NaN
        ELSE t[CHOOSE j \in PriorObserved(t, col, i) :
                   \A m \in PriorObserved(t, col, i) : m <= j][col]])

\* df.groupby('sensor_id')[col].transform('median')
GroupMedian(t, col) ==
    AsSeq([i \in 1..Len(t) |->
        IF t[i].sensor_id = NoSensor THEN NaN
        ELSE Median(Take(t, col, GroupIndex(t, t[i].sensor_id)))])

\* df.loc[mask_null, col] = medians[mask_null]
FillNull(t, col, medians) ==
    SetColumn(t, col,
        AsSeq([i \in 1..Len(t) |-> IF isnan(t[i][col]) THEN medians[i] ELSE t[i][col]]))

\* lines 49-53 for one column: cells still null take the sensor's median
MedianFallback(t, col) ==
    IF \E i \in 1..Len(t) : isnan(t[i][col])
    THEN FillNull(t, col, GroupMedian(t, col))
    ELSE t

\* lines 42-43
KeepRaw(t) ==
    SetColumn(SetColumn(t, "temperature_raw", Column(t, "temperature")),
              "humidity_raw", Column(t, "humidity"))

\* line 46
FfillReadings(t) ==
    SetColumn(SetColumn(t, "temperature", GroupFfill(t, "temperature")),
              "humidity", GroupFfill(t, "humidity"))

\* Series.rolling(window, min_periods=1).mean(): at each position the mean of
\* the observations among the last `window` entries, NaN when there is none
RollingMean(values, window) ==
    AsSeq([j \in 1..Len(values) |->
        Mean(SubSeq(values, IF j > window THEN j - window + 1 ELSE 1, j))])

Detrend(values, roll) == AsSeq([j \in 1..Len(values) |-> FSub(values[j], roll[j])])

DriftOf(idx, values, roll) ==
    <<Labelled(idx, Detrend(values, roll)), Labelled(idx, roll)>>

\* remove_drift(group, col, window) -> (detrended, roll), both labelled by
\* g.index; the group is given by its row labels idx
remove_drift(t, idx, col, window) ==
    DriftOf(idx, Take(t, col, idx), RollingMean(Take(t, col, idx), window))

\* lines 74-80: the list of the groups' detrended (part 1) or rolling mean
\* (part 2) series of column col, in groupby order
DriftList(t, keys, col, part) ==
    AsSeq([m \in 1..Len(keys) |->
        remove_drift(t, GroupIndex(t, keys[m]), col, ROLL_WINDOW)[part]])

\* the assignment of lines 83-86 without the labels: the concatenated values
\* in groupby order, written down the column by position
ReassembleByPosition(t, col, list) ==
    SetColumn(t, col,
        AsSeq([i \in 1..Len(t) |->
            IF i <= Len(concat(list)) THEN concat(list)[i].v ELSE NaN]))

\* lines 83-86: pd.concat(list).sort_index(), assigned to the column
Reassemble(t, col, list) == AssignAligned(t, col, sort_index(concat(list)))

\* g[col].std(): the sample standard deviation, pandas' default ddof=1
SampleStd(values) == Std(values, 1)

\* g[col].std(ddof=0)
GroupStd(values) == Std(values, 0)

ZScoresOf(values, mean, std) ==
    IF std = Zero \/ isnan(std)
    THEN AsSeq([j \in 1..Len(values) |-> Zero])
    ELSE AsSeq([j \in 1..Len(values) |-> FDivRoot(FSub(values[j], mean), std)])

\* lines 99-102 (104-107): the z-scores written on one group for one column
ZScores(values) == ZScoresOf(values, Mean(values), GroupStd(values))

ZScoreGroup(t, g0, idx) ==
    LocAssign(LocAssign(t, idx, "temperature_z",
                        ZScores(Take(g0, "temperature_detrended", idx))),
              idx, "humidity_z", ZScores(Take(g0, "humidity_detrended", idx)))

\* the loop of lines 93-107 over the groups `keys` of the table g0 the groupby
\* was taken of
RECURSIVE ZScoreLoop(_, _, _)
ZScoreLoop(t, g0, keys) ==
    IF keys = <<>> THEN t
    ELSE ZScoreLoop(ZScoreGroup(t, g0, GroupIndex(g0, Head(keys))), g0, Tail(keys))

\* the first row that holds row i's sensor id
FirstOf(t, i) ==
    CHOOSE j \in 1..i : /\ t[j].sensor_id = t[i].sensor_id
                        /\ \A m \in 1..(j - 1) : t[m].sensor_id # t[i].sensor_id

\* pd.factorize(df['sensor_id'])[0]: ids numbered from 0 in order of first
\* appearance, -1 for NaN
factorize(t) ==
    AsSeq([i \in 1..Len(t) |->
        IF t[i].sensor_id = NoSensor THEN -1
        ELSE Cardinality({ t[m].sensor_id : m \in 1..(FirstOf(t, i) - 1) } \ {NoSensor})])

\* pd.get_dummies(df['sensor_id'], prefix='sensor'): one column per id present
get_dummies(t) ==
    AsSeq([i \in 1..Len(t) |->
        [s \in { t[m].sensor_id : m \in 1..Len(t) } \ {NoSensor} |-> t[i].sensor_id = s]])

\* lines 24-29
Load3 ==
    /\ script = "task3" /\ pc = "start"
    /\ IF ~file.exists
       THEN pc' = "failed" /\ UNCHANGED df            \* FileNotFoundError
       ELSE pc' = "loaded" /\ df' = read_csv(file)
    /\ UNCHANGED <<script, file, output>>

\* lines 31-37: parse and sort by timestamp, coerce the readings to numbers
Prepare3 ==
    /\ script = "task3" /\ pc = "loaded"
    /\ IF \/ ~({"timestamp", "temperature", "humidity"} \subseteq file.columns)  \* KeyError
          \/ \E i \in 1..Len(df) : ~df[i].timestamp.ok               \* to_datetime raises
       THEN pc' = "failed" /\ UNCHANGED df
       ELSE /\ pc' = "sorted"
            /\ \E sorted \in sort_values(df, "timestamp") :
                 df' = CoerceColumn(CoerceColumn(sorted, "temperature"), "humidity")
    /\ UNCHANGED <<script, file, output>>

\* lines 39-56: keep the raw readings, forward fill per sensor, median fallback
Impute3 ==
    /\ script = "task3" /\ pc = "sorted"
    /\ IF "sensor_id" \notin file.columns
       THEN pc' = "failed" /\ UNCHANGED df            \* KeyError
       ELSE /\ pc' = "imputed"
            /\ df' = MedianFallback(
                        MedianFallback(FfillReadings(KeepRaw(df)), "temperature"),
                        "humidity")
    /\ UNCHANGED <<script, file, output>>

\* lines 68-86: the four columns of the drift step, for the groups `keys`
RemoveDrift(t, keys) ==
    Reassemble(
      Reassemble(
        Reassemble(
          Reassemble(t, "temperature_roll_mean", DriftList(t, keys, "temperature", 2)),
          "humidity_roll_mean", DriftList(t, keys, "humidity", 2)),
        "temperature_detrended", DriftList(t, keys, "temperature", 1)),
      "humidity_detrended", DriftList(t, keys, "humidity", 1))

\* the drift step with the table saved to the output file before it runs
Drift3Checkpoint ==
    /\ script = "task3" /\ pc = "imputed"
    /\ output' = to_csv(df)
    /\ IF GroupKeys(df) = <<>>
       THEN pc' = "failed" /\ UNCHANGED df
       ELSE pc' = "detrended" /\ df' = RemoveDrift(df, GroupKeys(df))
    /\ UNCHANGED <<script, file>>

\* lines 58-86: rolling mean and detrended signal per sensor, put back by label
Drift3 ==
    /\ script = "task3" /\ pc = "imputed"
    /\ IF GroupKeys(df) = <<>>
       THEN pc' = "failed" /\ UNCHANGED df            \* pd.concat([]): ValueError
       ELSE pc' = "detrended" /\ df' = RemoveDrift(df, GroupKeys(df))
    /\ UNCHANGED <<script, file, output>>

\* lines 88-107: z-score of the detrended readings per sensor
ZScore3 ==
    /\ script = "task3" /\ pc = "detrended"
    /\ pc' = "scaled"
    /\ df' = ZScoreLoop(
               SetColumn(SetColumn(df, "temperature_z", AsSeq([i \in 1..Len(df) |-> NaN])),
                         "humidity_z", AsSeq([i \in 1..Len(df) |-> NaN])),
               df, GroupKeys(df))
    /\ UNCHANGED <<script, file, output>>

\* lines 109-113: sensor_label and the one-hot columns
Encode(t) ==
    SetColumn(SetColumn(t, "sensor_label", factorize(t)), "one_hot", get_dummies(t))

\* lines 109-132: encode the sensor ids, select the columns (all of them: cols
\* only reorders), write the file; the process ends and its table is gone
Save3 ==
    /\ script = "task3" /\ pc = "scaled"
    /\ pc' = "done"
    /\ output' = to_csv(Encode(df))
    /\ df' = <<>>
    /\ UNCHANGED <<script, file>>

---------------------------------------------------------------------------
(* task2.py *)

\* most rows financial_data.csv holds
MaxDays == 4

\* (closing_price, volume) cells of one line of financial_data.csv
Quotes ==
    { <<Text, Int2F(3)>>, <<Int2F(0), NaN>>, <<Int2F(1), Int2F(3)>>, <<Int2F(5), Int2F(3)>> }

\* a daily series of n lines, one per date, oldest first or newest first
DailySeries(n) ==
    { [i \in 1..n |-> [date |-> Stamp(IF up THEN i ELSE n + 1 - i),
                       closing_price |-> q[i][1], volume |-> q[i][2]]] :
        up \in BOOLEAN, q \in [1..n -> Quotes] }

COLUMNS2 == {"date", "closing_price", "volume"}

\* financial_data.csv: absent; well-formed with up to MaxDays lines; one line
\* and a column missing from the header; one line whose date does not parse
Files2 ==
    {NoFile}
    \cup { CsvFile(COLUMNS2, rows) : rows \in UNION { DailySeries(n) : n \in 0..MaxDays } }
    \cup { CsvFile(COLUMNS2 \ {c}, rows) : c \in COLUMNS2, rows \in DailySeries(1) }
    \cup { CsvFile(COLUMNS2, <<[r[1] EXCEPT !.date = BadStamp]>>) : r \in DailySeries(1) }

\* Series.ffill(): the last observation at or before each position
ffill(s) ==
    AsSeq([i \in 1..Len(s) |->
        IF \A j \in 1..i : isnan(s[j]) THEN NaN
        ELSE s[CHOOSE j \in 1..i : ~isnan(s[j]) /\ \A m \in (j + 1)..i : isnan(s[m])]])

\* Series.bfill(): the first observation at or after each position
bfill(s) ==
    AsSeq([i \in 1..Len(s) |->
        IF \A j \in i..Len(s) : isnan(s[j]) THEN NaN
        ELSE s[CHOOSE j \in i..Len(s) : ~isnan(s[j]) /\ \A m \in i..(j - 1) : isnan(s[m])]])

\* Series.fillna(value)
fillna(s, value) == AsSeq([i \in 1..Len(s) |-> IF isnan(s[i]) THEN value ELSE s[i]])

\* lines 45-48 (51-54): forward fill, backward fill, and the median of what
\* is left for the cells still null
ImputeSeries(s) ==
    IF \E i \in 1..Len(s) : isnan(bfill(ffill(s))[i])
    THEN fillna(bfill(ffill(s)), Median(bfill(ffill(s))))
    ELSE bfill(ffill(s))

ImputeColumn(t, col) == SetColumn(t, col, ImputeSeries(Column(t, col)))

\* Series.pct_change(periods): s / s.shift(periods) - 1
pct_change(s, periods) ==
    AsSeq([i \in 1..Len(s) |->
        IF i <= periods THEN NaN
        ELSE FSub(FDiv(s[i], s[i - periods]), Int2F(1))])

\* np.log1p(x) = ln(1 + x), kept symbolic: 0 at 0, -inf at -1, NaN below -1
log1p(x) ==
    CASE x.k = "num" /\ x.n = 0 -> Zero
      [] x.k = "num" /\ x.n = -x.d -> Inf(-1)
      [] x.k = "num" /\ x.n < -x.d -> NaN
      [] x.k = "num" -> [k |-> "log1p", n |-> x.n, d |-> x.d]
      [] x.k = "inf" /\ x.n > 0 -> x
      [] OTHER -> NaN

\* the largest integer <= x, for a rational x >= 0
Floor(x) == x.n \div x.d

\* linear interpolation at fractional rank pos (from 0) of the sorted p
Interpolate(p, pos) ==
    IF Floor(pos) + 1 >= Len(p) THEN p[Len(p)]
    ELSE FAdd(p[Floor(pos) + 1],
              FMul(FSub(p[Floor(pos) + 2], p[Floor(pos) + 1]),
                   FSub(pos, Int2F(Floor(pos)))))

QuantileOfSorted(p, q) ==
    IF p = <<>> THEN NaN ELSE Interpolate(p, FMul(Int2F(Len(p) - 1), q))

\* Series.quantile(q), interpolation='linear', over the observations
quantile(s, q) == QuantileOfSorted(SortSeq(Present(s), FLt), q)

\* lines 70-74: (lower, upper) = (Q1 - 1.5 IQR, Q3 + 1.5 IQR)
Fences(Q1, Q3) ==
    <<FSub(Q1, FMul(Num(3, 2), FSub(Q3, Q1))), FAdd(Q3, FMul(Num(3, 2), FSub(Q3, Q1)))>>

IqrFences(s) == Fences(quantile(s, Num(1, 4)), quantile(s, Num(3, 4)))

\* line 76 with inclusive comparisons
OutlierFlagInclusive(x, lower, upper) ==
    FLt(x, lower) \/ FGt(x, upper) \/ (x.k = "num" /\ (x = lower \/ x = upper))

\* line 76
OutlierFlag(x, lower, upper) == FLt(x, lower) \/ FGt(x, upper)

FlagOutliers(s, fences) ==
    AsSeq([i \in 1..Len(s) |-> OutlierFlag(s[i], fences[1], fences[2])])

\* lines 59-78 on the imputed table
Features(t) ==
    SetColumn(
      SetColumn(
        SetColumn(
          SetColumn(t, "ret_1d", pct_change(Column(t, "closing_price"), 1)),
          "ret_7d", pct_change(Column(t, "closing_price"), 7)),
        "volume_log", AsSeq([i \in 1..Len(t) |-> log1p(t[i].volume)])),
      "is_outlier",
      FlagOutliers(Column(t, "closing_price"), IqrFences(Column(t, "closing_price"))))

\* lines 25-32
Load2 ==
    /\ script = "task2" /\ pc = "start"
    /\ IF ~file.exists
       THEN pc' = "failed" /\ UNCHANGED df            \* FileNotFoundError
       ELSE pc' = "loaded" /\ df' = read_csv(file)
    /\ UNCHANGED <<script, file, output>>

\* lines 34-40: parse and sort by date, coerce the two columns to numbers
Prepare2 ==
    /\ script = "task2" /\ pc = "loaded"
    /\ IF \/ ~(COLUMNS2 \subseteq file.columns)                     \* KeyError
          \/ \E i \in 1..Len(df) : ~df[i].date.ok                   \* to_datetime raises
       THEN pc' = "failed" /\ UNCHANGED df
       ELSE /\ pc' = "sorted"
            /\ \E sorted \in sort_values(df, "date") :
                 df' = CoerceColumn(CoerceColumn(sorted, "closing_price"), "volume")
    /\ UNCHANGED <<script, file, output>>

\* lines 42-57
Impute2 ==
    /\ script = "task2" /\ pc = "sorted"
    /\ pc' = "imputed"
    /\ df' = ImputeColumn(ImputeColumn(df, "closing_price"), "volume")
    /\ UNCHANGED <<script, file, output>>

\* lines 59-78: returns, log volume, outlier flag
Features2 ==
    /\ script = "task2" /\ pc = "imputed"
    /\ pc' = "featured"
    /\ df' = Features(df)
    /\ UNCHANGED <<script, file, output>>

\* lines 83-90: select the columns (all of them), write the file; the process
\* ends and its table is gone
Save2 ==
    /\ script = "task2" /\ pc = "featured"
    /\ pc' = "done"
    /\ output' = to_csv(df)
    /\ df' = <<>>
    /\ UNCHANGED <<script, file>>

---------------------------------------------------------------------------
(* One run of one script *)

Init ==
    /\ script \in {"task2", "task3"}
    /\ pc = "start"
    /\ file \in (IF script = "task3" THEN Files3 ELSE Files2)
    /\ df = <<>>
    /\ output = NoOutput

Next ==
    \/ Load3 \/ Prepare3 \/ Impute3 \/ Drift3 \/ ZScore3 \/ Save3
    \/ Load2 \/ Prepare2 \/ Impute2 \/ Features2 \/ Save2

Spec == Init /\ [][Next]_vars

---------------------------------------------------------------------------
(* The claims of the specification, on the finished run of each script *)

Done3 == script = "task3" /\ pc = "done"

Done2 == script = "task2" /\ pc = "done"

\* the rows of the written file
out == output.rows

\* the number in column col of the input line the row came from, NaN if none
Cell(row, col) == to_numeric(file.rows[row.line][col])

\* the rows up to row i that carry row i's sensor id
SameSensorUpTo(rows, i) == { j \in 1..i : rows[j].sensor_id = rows[i].sensor_id }

\* the rows of sensor s
RowsOf(rows, s) == { i \in 1..Len(rows) : rows[i].sensor_id = s }

Largest(S) == CHOOSE x \in S : \A y \in S : y <= x

\* C1: in the table task3.py writes, temperature_z and humidity_z are finite
\* numbers on every row, whatever the input table was.
C1_ZScoresFinite ==
    Done3 => \A i \in 1..Len(out) :
                IsFinite(out[i].temperature_z) /\ IsFinite(out[i].humidity_z)

\* the z-score of a row is on the side of its group's mean its detrended value is
SideOfMean(rows, i, det) ==
    Sign(FSub(rows[i][det],
              Mean(AsSeq([m \in 1..Len(rows) |->
                       IF m \in RowsOf(rows, rows[i].sensor_id) THEN rows[m][det] ELSE NaN]))))

\* C2: the written table holds each input line exactly once, and every row
\* carries the timestamp, the sensor id and the raw readings of its own input
\* line, with a detrended value and a z-score derived from that same row
\* (detrended = reading - rolling mean of the row), however the rows of the
\* sensors were interleaved.
C2_RowsPreserved ==
    Done3 =>
      /\ Len(out) = Len(file.rows)
      /\ \A l \in 1..Len(file.rows) :
           Cardinality({ i \in 1..Len(out) : out[i].line = l }) = 1
      /\ \A i \in 1..Len(out) :
           /\ out[i].timestamp = file.rows[out[i].line].timestamp
           /\ out[i].sensor_id = file.rows[out[i].line].sensor_id
           /\ out[i].temperature_raw = Cell(out[i], "temperature")
           /\ out[i].humidity_raw = Cell(out[i], "humidity")
           /\ out[i].temperature_detrended =
                FSub(out[i].temperature, out[i].temperature_roll_mean)
           /\ out[i].humidity_detrended =
                FSub(out[i].humidity, out[i].humidity_roll_mean)
           /\ Sign(out[i].temperature_z) = SideOfMean(out, i, "temperature_detrended")
           /\ Sign(out[i].humidity_z) = SideOfMean(out, i, "humidity_detrended")

\* two sensors whose rows come in the file in the opposite order of both the
\* timestamps and the groups, with different rolling means
C2_Interleaved ==
    /\ Done3 /\ Len(out) = 2
    /\ out[1].sensor_id = "B" /\ out[2].sensor_id = "A"
    /\ out[1].line = 2 /\ out[2].line = 1
    /\ IsFinite(out[1].temperature_roll_mean) /\ IsFinite(out[2].temperature_roll_mean)
    /\ out[1].temperature_roll_mean # out[2].temperature_roll_mean

\* the forward-filled reading of row m: the last reading of its sensor at or
\* before it, NaN when there is none
LastReading(rows, raw, m) ==
    IF \A j \in SameSensorUpTo(rows, m) : isnan(rows[j][raw]) THEN NaN
    ELSE rows[Largest({ j \in SameSensorUpTo(rows, m) : ~isnan(rows[j][raw]) })][raw]

\* what the imputation is specified to leave on row i
SpecifiedImputation(rows, raw, i) ==
    IF ~isnan(LastReading(rows, raw, i)) THEN LastReading(rows, raw, i)
    ELSE Median(AsSeq([m \in 1..Len(rows) |->
             IF m \in RowsOf(rows, rows[i].sensor_id)
             THEN LastReading(rows, raw, m) ELSE NaN]))

\* C3: imputation works within one sensor only: a missing reading becomes the
\* most recent earlier reading of the same sensor, or, without one, the median
\* of that sensor's forward-filled column; a reading that is present is never
\* changed.
C3_ImputationPerSensor ==
    Done3 => \A i \in 1..Len(out) :
                /\ out[i].temperature = SpecifiedImputation(out, "temperature_raw", i)
                /\ out[i].humidity = SpecifiedImputation(out, "humidity_raw", i)

\* the last min(ROLL_WINDOW, j) rows of row i's sensor, row i its j-th row
WindowOf(rows, i) ==
    { m \in SameSensorUpTo(rows, i) :
        Cardinality({ x \in SameSensorUpTo(rows, i) : x >= m }) <= ROLL_WINDOW }

\* the arithmetic mean of column col over the rows W
MeanOver(rows, col, W) ==
    FDiv(SumSeq(AsSeq([m \in 1..Len(rows) |-> IF m \in W THEN rows[m][col] ELSE Zero])),
         Int2F(Cardinality(W)))

RollingMeanAsSpecified(rows, i, col, roll, det) ==
    /\ rows[i][roll] = MeanOver(rows, col, WindowOf(rows, i))
    /\ Cardinality(SameSensorUpTo(rows, i)) = 1 =>
         rows[i][roll] = rows[i][col] /\ rows[i][det] = Zero

\* C4: the rolling mean of the j-th row of a sensor is the mean of the imputed
\* readings of that sensor's last min(6, j) rows up to it, rows of other sensors
\* never entering the window; on a sensor's first row the rolling mean is the
\* imputed reading itself and the detrended value is 0.
C4_RollingMeanWindow ==
    Done3 => \A i \in 1..Len(out) :
                /\ RollingMeanAsSpecified(out, i, "temperature",
                        "temperature_roll_mean", "temperature_detrended")
                /\ RollingMeanAsSpecified(out, i, "humidity",
                        "humidity_roll_mean", "humidity_detrended")

\* the same on the rows whose imputed reading is a number: the window and the
\* first row are as C4 says there, also past ROLL_WINDOW rows of one sensor
RollingMeanOfReadings ==
    Done3 => \A i \in 1..Len(out) :
                /\ ~isnan(out[i].temperature) =>
                     RollingMeanAsSpecified(out, i, "temperature",
                          "temperature_roll_mean", "temperature_detrended")
                /\ ~isnan(out[i].humidity) =>
                     RollingMeanAsSpecified(out, i, "humidity",
                          "humidity_roll_mean", "humidity_detrended")

\* a sensor with more than ROLL_WINDOW rows whose first reading differs from
\* the later ones, so that leaving it out of the window shows
WindowSlides ==
    /\ Done3 /\ Len(out) > ROLL_WINDOW
    /\ out[1].temperature # out[2].temperature
    /\ out[Len(out)].temperature_roll_mean = out[Len(out)].temperature

\* the detrended values of sensor s that are numbers
Detrended(rows, det, s) ==
    Present(AsSeq([m \in 1..Len(rows) |-> IF m \in RowsOf(rows, s) THEN rows[m][det] ELSE NaN]))

Squares(values) == AsSeq([j \in 1..Len(values) |-> FMul(values[j], values[j])])

\* the population variance: the mean of the squares less the square of the mean
PopulationVariance(values) ==
    FSub(FDiv(SumSeq(Squares(values)), Int2F(Len(values))),
         FMul(FDiv(SumSeq(values), Int2F(Len(values))),
              FDiv(SumSeq(values), Int2F(Len(values)))))

\* z = dev / sqrt(var): z has the sign of dev and z^2 * var = dev^2
IsQuotientByRoot(z, dev, var) ==
    /\ IsFinite(z)
    /\ Sign(z) = Sign(dev)
    /\ Num(Abs(z.n), z.d) = FDiv(FMul(dev, dev), var)

ZScoreAsSpecified(rows, i, det, zcol, values) ==
    IF PopulationVariance(values) = Zero
    THEN rows[i][zcol] = Zero
    ELSE IsQuotientByRoot(rows[i][zcol],
                          FSub(rows[i][det], FDiv(SumSeq(values), Int2F(Len(values)))),
                          PopulationVariance(values))

\* C5: on a sensor whose detrended values are all equal (population standard
\* deviation 0, a single row included) the z-score is 0.0 on every row of that
\* sensor, and this touches the rows of no other sensor: on every sensor with a
\* non-zero population standard deviation the z-score is
\* (detrended - sensor mean) / (sensor population standard deviation, over N),
\* for temperature and humidity alike.
C5_ZScorePerSensor ==
    Done3 => \A i \in 1..Len(out) :
                out[i].sensor_id # NoSensor =>
                  /\ ~isnan(out[i].temperature_detrended) =>
                       ZScoreAsSpecified(out, i, "temperature_detrended", "temperature_z",
                           Detrended(out, "temperature_detrended", out[i].sensor_id))
                  /\ ~isnan(out[i].humidity_detrended) =>
                       ZScoreAsSpecified(out, i, "humidity_detrended", "humidity_z",
                           Detrended(out, "humidity_detrended", out[i].sensor_id))

\* one sensor with a constant detrended signal next to one whose signal varies
C5_ConstantAndVarying ==
    /\ Done3
    /\ \E i, j \in 1..Len(out) :
         /\ out[i].sensor_id = "A" /\ out[i].temperature_z \notin {Zero, NaN}
         /\ out[j].sensor_id = "B" /\ out[j].temperature_z = Zero
         /\ ~isnan(out[j].temperature_detrended)

\* the column the script sorts its table by
SortKey(row) == IF script = "task3" THEN row.timestamp.t ELSE row.date.t

\* C6: the sort by timestamp (task3.py) or date (task2.py) is ascending and
\* stable: rows with equal keys keep the order they have in the file.
C6_StableSort ==
    pc = "sorted" =>
      \A i, j \in 1..Len(df) :
         i < j => /\ SortKey(df[i]) <= SortKey(df[j])
                  /\ SortKey(df[i]) = SortKey(df[j]) => df[i].line < df[j].line

\* the sort is ascending in the key
SortAscending ==
    pc = "sorted" => \A i, j \in 1..Len(df) : i < j => SortKey(df[i]) <= SortKey(df[j])

\* C7: the output file is written by one write, after every step has completed:
\* a run that has not finished, or has failed at any step, has not created or
\* changed it, and the file once written holds the whole table.
C7_AllOrNothing ==
    /\ pc # "done" => output = NoOutput
    /\ output.written =>
         /\ Len(out) = Len(file.rows)
         /\ \A i \in 1..Len(out) :
              IF script = "task3"
              THEN {"temperature_z", "humidity_z", "sensor_label"} \subseteq DOMAIN out[i]
              ELSE {"ret_1d", "ret_7d", "volume_log", "is_outlier"} \subseteq DOMAIN out[i]

\* a run of task3.py that fails in the drift step, after loading, sorting and
\* imputing its table
C7_FailsLate ==
    /\ script = "task3" /\ pc = "failed"
    /\ Len(df) > 0 /\ "temperature_raw" \in DOMAIN df[1]
    /\ output = NoOutput

\* the closing prices of the written table, ascending
SortedPrices == SortSeq(Present(Column(out, "closing_price")), FLt)

\* the k-th quartile of the sorted p as a weighted mean of its two neighbours:
\* at rank (n - 1) k / 4 = a + r/4 it is ((4 - r) p[a+1] + r p[a+2]) / 4
QuartileAt(p, a, r) ==
    IF r = 0 THEN p[a + 1]
    ELSE FDiv(FAdd(FMul(Int2F(4 - r), p[a + 1]), FMul(Int2F(r), p[a + 2])), Int2F(4))

Quartile(p, k) ==
    IF p = <<>> THEN NaN
    ELSE QuartileAt(p, ((Len(p) - 1) * k) \div 4, ((Len(p) - 1) * k) % 4)

\* Q1 - 1.5 IQR and Q3 + 1.5 IQR, written as (5 Q1 - 3 Q3) / 2 and (5 Q3 - 3 Q1) / 2
LowerFence(Q1, Q3) == FDiv(FSub(FMul(Int2F(5), Q1), FMul(Int2F(3), Q3)), Int2F(2))

UpperFence(Q1, Q3) == FDiv(FSub(FMul(Int2F(5), Q3), FMul(Int2F(3), Q1)), Int2F(2))

FlaggedOutside(rows, lower, upper) ==
    \A i \in 1..Len(rows) :
       rows[i].is_outlier <=>
         (FLt(rows[i].closing_price, lower) \/ FLt(upper, rows[i].closing_price))

\* C8: is_outlier is true exactly on the rows whose closing price is strictly
\* below Q1 - 1.5 IQR or strictly above Q3 + 1.5 IQR, the quartiles taken once
\* over the whole imputed column; a price equal to a bound is not flagged.
C8_OutlierStrictlyOutside ==
    Done2 => FlaggedOutside(out,
                 LowerFence(Quartile(SortedPrices, 1), Quartile(SortedPrices, 3)),
                 UpperFence(Quartile(SortedPrices, 1), Quartile(SortedPrices, 3)))

\* a price that sits exactly on the upper bound of a column with IQR > 0
C8_OnTheBound ==
    /\ Done2
    /\ Quartile(SortedPrices, 1) # Quartile(SortedPrices, 3)
    /\ \E i \in 1..Len(out) :
         /\ out[i].closing_price =
              UpperFence(Quartile(SortedPrices, 1), Quartile(SortedPrices, 3))
         /\ ~out[i].is_outlier

ReturnAsSpecified(rows, i, k, ret) ==
    IF i <= k THEN isnan(rows[i][ret])
    ELSE /\ ~isnan(rows[i][ret])
         /\ rows[i][ret] = FDiv(FSub(rows[i].closing_price, rows[i - k].closing_price),
                                rows[i - k].closing_price)

\* C9: ret_1d and ret_7d are missing on exactly the first 1 and the first 7 rows
\* of the date-sorted table; on every later row i the value is
\* (cp[i] - cp[i-k]) / cp[i-k] on the imputed closing price.
C9_Returns ==
    Done2 => \A i \in 1..Len(out) :
                ReturnAsSpecified(out, i, 1, "ret_1d") /\ ReturnAsSpecified(out, i, 7, "ret_7d")

\* the same where both prices are numbers and the earlier one is not 0
ReturnsOfPrices ==
    Done2 => \A i \in 1..Len(out) :
                /\ isnan(out[1].ret_1d) /\ isnan(out[i].ret_7d)
                /\ (i > 1 /\ ~isnan(out[i].closing_price) /\ out[i - 1].closing_price # Zero) =>
                     ReturnAsSpecified(out, i, 1, "ret_1d")

\* C10: after forward fill, backward fill and the median fallback the
\* closing_price and volume columns hold no missing value, whatever the column
\* held, and every value that was present is unchanged.
C10_NoMissingAfterImputation ==
    Done2 => \A i \in 1..Len(out) :
                /\ ~isnan(out[i].closing_price) /\ ~isnan(out[i].volume)
                /\ ~isnan(Cell(out[i], "closing_price")) =>
                     out[i].closing_price = Cell(out[i], "closing_price")
                /\ ~isnan(Cell(out[i], "volume")) => out[i].volume = Cell(out[i], "volume")

\* the same for the columns that hold at least one number
ImputationOfObservedColumns ==
    Done2 => \A i \in 1..Len(out) :
                /\ (\E j \in 1..Len(out) : ~isnan(Cell(out[j], "closing_price"))) =>
                     ~isnan(out[i].closing_price)
                /\ (\E j \in 1..Len(out) : ~isnan(Cell(out[j], "volume"))) =>
                     ~isnan(out[i].volume)
                /\ ~isnan(Cell(out[i], "closing_price")) =>
                     out[i].closing_price = Cell(out[i], "closing_price")
                /\ ~isnan(Cell(out[i], "volume")) => out[i].volume = Cell(out[i], "volume")

===========================================================================
